---- MODULE Spec2Model ----
(***************************************************************************)
(* The WebExtension permission engine of WebKit's GLib port:               *)
(* WebExtensionContext's four maps of granted / denied permissions and     *)
(* match patterns with their expiration dates, the lazy expiry sweep, the  *)
(* URL permission-state cache, and the WebKitWebExtensionContext API that  *)
(* drives them.                                                            *)
(*                                                                         *)
(* Time is counted in ticks of half a second, so that the truncation of a  *)
(* GDateTime to whole seconds (g_date_time_to_unix) is visible.            *)
(***************************************************************************)
EXTENDS Integers, Sequences, FiniteSets, TLC

VARIABLES
    now,                                               \* WallTime::now(), in ticks
    manifest,                                          \* the extension's parsed manifest
    m_grantedPermissions,
    m_deniedPermissions,
    m_grantedPermissionMatchPatterns,
    m_deniedPermissionMatchPatterns,
    m_nextGrantedPermissionsExpirationDate,
    m_nextDeniedPermissionsExpirationDate,
    m_nextGrantedPermissionMatchPatternsExpirationDate,
    m_nextDeniedPermissionMatchPatternsExpirationDate,
    m_cachedPermissionStates,
    m_cachedPermissionURLs,
    signals,                                           \* signals emitted by the last API call
    isLoaded,                                          \* WebExtensionContext::isLoaded()
    m_backgroundWebView,                               \* "null", or how far its load has come
    m_backgroundContentIsLoaded,
    m_backgroundContentLoadError,                      \* "null" or the error
    m_actionsToPerformAfterBackgroundContentLoads,     \* the tasks whose handlers are queued
    tasks                                              \* the GTasks of load_background_content

permissionVars == << now, manifest, m_grantedPermissions, m_deniedPermissions,
           m_grantedPermissionMatchPatterns, m_deniedPermissionMatchPatterns,
           m_nextGrantedPermissionsExpirationDate, m_nextDeniedPermissionsExpirationDate,
           m_nextGrantedPermissionMatchPatternsExpirationDate,
           m_nextDeniedPermissionMatchPatternsExpirationDate,
           m_cachedPermissionStates, m_cachedPermissionURLs, signals >>

backgroundVars == << isLoaded, m_backgroundWebView, m_backgroundContentIsLoaded,
           m_backgroundContentLoadError, m_actionsToPerformAfterBackgroundContentLoads,
           tasks >>

vars == << permissionVars, backgroundVars >>

(***************************************************************************)
(* Bounds of the model.                                                    *)
(***************************************************************************)
\* The clock stops after MaxTime ticks.
MaxTime == 2
\* Expiration dates handed to the API are 1 .. MaxDate ticks after the epoch.
MaxDate == 2
\* load_background_content is called at most MaxTasks times.
MaxTasks == 3
\* The manifest has at most MaxInjectedContents content_scripts entries.
MaxInjectedContents == 2

(***************************************************************************)
(* WallTime: a double.  Finite dates are tick counts; infinity() and nan() *)
(* are two values outside the range, compared the way IEEE 754 compares.   *)
(***************************************************************************)
TicksPerSecond == 2
WallTimeInfinity == 1000
WallTimeNaN == -1

\* operator> on WallTime: false when either side is NaN
WallTimeGreater(a, b) == a # WallTimeNaN /\ b # WallTimeNaN /\ a > b
\* operator!= on WallTime: true when either side is NaN
WallTimeNotEqual(a, b) == a = WallTimeNaN \/ b = WallTimeNaN \/ a # b

\* g_date_time_to_unix followed by WallTime::fromRawSeconds: whole seconds
fromRawSeconds(date) == (date \div TicksPerSecond) * TicksPerSecond

\* "NULL" for a GDateTime* argument
NoDate == -2
\* the dates a caller may pass: NULL or a GDateTime
DateArguments == {NoDate} \cup (1 .. MaxDate)

Min(S) == CHOOSE x \in S : \A y \in S : x <= y

EmptyMap == [k \in {} |-> 0]
\* HashMap::removeIf keeps the entries of `keep`
RestrictMap(map, keep) == [k \in keep |-> map[k]]

(***************************************************************************)
(* WebExtensionMatchPattern: <all_urls>, or scheme://host/path where the   *)
(* scheme may be "*", the host "*", "*.domain" or a host name.  A host is  *)
(* a pair (sub, domain); sub = "*" is the "*." prefix, domain = "*" is     *)
(* the host "*".                                                           *)
(***************************************************************************)
Pattern(all, scheme, sub, domain, path) ==
    [all |-> all, scheme |-> scheme, sub |-> sub, domain |-> domain, path |-> path]
Url(scheme, sub, domain, path) ==
    [scheme |-> scheme, sub |-> sub, domain |-> domain, path |-> path]

AllURLsPattern == Pattern(TRUE, "*", "*", "*", "/*")                \* <all_urls>
AllHostsPattern == Pattern(FALSE, "*", "*", "*", "/*")              \* *://*/*
ExampleSubdomainsPattern == Pattern(FALSE, "https", "*", "example.com", "/*")  \* https://*.example.com/*
ExampleURL == Url("https", "", "example.com", "/")                  \* https://example.com/
WebKitURL == Url("https", "", "webkit.org", "/")                    \* https://webkit.org/

validSchemes == {"http", "https", "file", "ftp", "webkit-extension"}
extensionSchemes == {"webkit-extension"}

matchesAllURLs(pattern) == pattern.all
matchesAllHosts(pattern) == pattern.all \/ pattern.domain = "*"

schemeMatchesScheme(pattern, scheme) ==
    \/ pattern.scheme = scheme
    \/ pattern.scheme = "*" /\ scheme \in {"http", "https"}
hostMatchesHost(pattern, sub, domain) ==
    \/ pattern.domain = "*"
    \/ /\ domain # "*"
       /\ pattern.domain = domain
       /\ (pattern.sub = "*" \/ pattern.sub = sub)
pathMatchesPath(pattern, path) ==
    pattern.path = "/*" \/ pattern.path = path

\* WebExtensionMatchPattern::matchesURL
matchesURL(pattern, url) ==
    IF pattern.all
    THEN url.scheme \in validSchemes \ extensionSchemes
    ELSE /\ schemeMatchesScheme(pattern, url.scheme)
         /\ hostMatchesHost(pattern, url.sub, url.domain)
         /\ pathMatchesPath(pattern, url.path)

\* WebExtensionMatchPattern::matchesPattern: this pattern covers the other one
matchesPattern(pattern, other, ignorePaths) ==
    IF pattern.all THEN TRUE
    ELSE IF other.all THEN FALSE
    ELSE /\ (pattern.scheme = "*" \/ pattern.scheme = other.scheme)
         /\ hostMatchesHost(pattern, other.sub, other.domain)
         /\ (ignorePaths \/ pathMatchesPath(pattern, other.path))

\* WebExtensionMatchPattern::getOrCreate(const URL&): scheme://host/path of the URL
patternForURL(url) == Pattern(FALSE, url.scheme, url.sub, url.domain, url.path)

(***************************************************************************)
(* The extension's manifest, as WebExtension parses it: the permissions    *)
(* and the match patterns it requests.  The four manifests of the API      *)
(* tests.                                                                  *)
(***************************************************************************)
supportedPermissions ==
    {"tabs", "cookies", "webNavigation", "declarativeNetRequestFeedback", "storage"}

\* the orders a HashSet holding the patterns of S may be iterated in
IterationOrders(S) ==
    {order \in [1 .. Cardinality(S) -> S] : {order[i] : i \in DOMAIN order} = S}

\* allRequestedMatchPatterns() is a HashSet; requestedIterationOrder is the order
\* this build iterates it in
OrderedManifest(permissions, order) ==
    [requestedPermissions |-> permissions, optionalPermissions |-> {},
     allRequestedMatchPatterns |-> {order[i] : i \in DOMAIN order},
     requestedIterationOrder |-> order,
     optionalPermissionMatchPatterns |-> {},
     hasBackgroundContent |-> FALSE,
     backgroundContentIsServiceWorker |-> FALSE,
     staticInjectedContents |-> << >>]

Manifest(permissions, patterns) ==
    OrderedManifest(permissions, CHOOSE order \in IterationOrders(patterns) : TRUE)
Manifests ==
    { Manifest({}, {}),
      Manifest({"tabs"}, {ExampleSubdomainsPattern}),
      Manifest({"tabs"}, {AllURLsPattern}),
      Manifest({"tabs"}, {AllHostsPattern}) }

hasRequestedPermission(c, permission) == permission \in c.manifest.requestedPermissions

(***************************************************************************)
(* PermissionState and PermissionStateOptions.                             *)
(***************************************************************************)
PermissionStates ==
    {"DeniedExplicitly", "DeniedImplicitly", "RequestedImplicitly", "Unknown",
     "RequestedExplicitly", "GrantedImplicitly", "GrantedExplicitly"}
SkipRequestedPermissions == "SkipRequestedPermissions"
IncludeOptionalPermissions == "IncludeOptionalPermissions"
RequestedWithTabsPermission == "RequestedWithTabsPermission"

(***************************************************************************)
(* Signal names.                                                           *)
(***************************************************************************)
GrantedPermissionsWereRemovedSignal == "granted-permissions-were-removed"
GrantedPermissionMatchPatternsWereRemovedSignal == "granted-permission-match-patterns-were-removed"
DeniedPermissionsWereRemovedSignal == "denied-permissions-were-removed"
DeniedPermissionMatchPatternsWereRemovedSignal == "denied-permission-match-patterns-were-removed"
PermissionsWereDeniedSignal == "permissions-were-denied"
PermissionsWereGrantedSignal == "permissions-were-granted"
PermissionMatchPatternsWereDeniedSignal == "permission-match-pattern-were-denied"
PermissionMatchPatternsWereGrantedSignal == "permission-match-pattern-were-granted"

(***************************************************************************)
(* The context as a record c, so that one handler's calls compose.         *)
(* Ctx is the context at the start of an API call, Install(c) the          *)
(* context the call leaves behind.                                         *)
(***************************************************************************)
Ctx ==
    [ now |-> now,
      manifest |-> manifest,
      m_grantedPermissions |-> m_grantedPermissions,
      m_deniedPermissions |-> m_deniedPermissions,
      m_grantedPermissionMatchPatterns |-> m_grantedPermissionMatchPatterns,
      m_deniedPermissionMatchPatterns |-> m_deniedPermissionMatchPatterns,
      m_nextGrantedPermissionsExpirationDate |-> m_nextGrantedPermissionsExpirationDate,
      m_nextDeniedPermissionsExpirationDate |-> m_nextDeniedPermissionsExpirationDate,
      m_nextGrantedPermissionMatchPatternsExpirationDate |->
          m_nextGrantedPermissionMatchPatternsExpirationDate,
      m_nextDeniedPermissionMatchPatternsExpirationDate |->
          m_nextDeniedPermissionMatchPatternsExpirationDate,
      m_cachedPermissionStates |-> m_cachedPermissionStates,
      m_cachedPermissionURLs |-> m_cachedPermissionURLs,
      signals |-> {} ]

Install(c) ==
    /\ m_grantedPermissions' = c.m_grantedPermissions
    /\ m_deniedPermissions' = c.m_deniedPermissions
    /\ m_grantedPermissionMatchPatterns' = c.m_grantedPermissionMatchPatterns
    /\ m_deniedPermissionMatchPatterns' = c.m_deniedPermissionMatchPatterns
    /\ m_nextGrantedPermissionsExpirationDate' = c.m_nextGrantedPermissionsExpirationDate
    /\ m_nextDeniedPermissionsExpirationDate' = c.m_nextDeniedPermissionsExpirationDate
    /\ m_nextGrantedPermissionMatchPatternsExpirationDate' =
           c.m_nextGrantedPermissionMatchPatternsExpirationDate
    /\ m_nextDeniedPermissionMatchPatternsExpirationDate' =
           c.m_nextDeniedPermissionMatchPatternsExpirationDate
    /\ m_cachedPermissionStates' = c.m_cachedPermissionStates
    /\ m_cachedPermissionURLs' = c.m_cachedPermissionURLs
    /\ signals' = c.signals
    /\ UNCHANGED << now, manifest >>
    /\ UNCHANGED backgroundVars

\* the result of a call that also returns a value
Returned(c, value) == [ctx |-> c, ret |-> value]

\* HashMap::add for every key of `keys`: an existing entry keeps its value
AddAll(map, keys, value) ==
    [k \in DOMAIN map \cup keys |-> IF k \in DOMAIN map THEN map[k] ELSE value]

\* g_signal_emit_by_name(m_delegate, "notify::" + notificationName)
emitSignal(c, notificationName) ==
    [c EXCEPT !.signals = @ \cup {"notify::" \o notificationName}]

clearCachedPermissionStates(c) ==
    [c EXCEPT !.m_cachedPermissionStates = EmptyMap, !.m_cachedPermissionURLs = << >>]

\* permissionsDidChange(const String&, const PermissionsSet&)
permissionsDidChange(c, notificationName, permissions) ==
    IF permissions = {} THEN c ELSE emitSignal(c, notificationName)

\* permissionsDidChange(const String&, const MatchPatternSet&)
\* variant: the cached permission states are kept
permissionMatchPatternsDidChange_keepingCache(c, notificationName, matchPatterns) ==
    IF matchPatterns = {} THEN c ELSE emitSignal(c, notificationName)
permissionMatchPatternsDidChange(c, notificationName, matchPatterns) ==
    IF matchPatterns = {} THEN c
    ELSE emitSignal(clearCachedPermissionStates(c), notificationName)

(***************************************************************************)
(* The lazy expiry sweep.  `map` and `next` name the fields of c that the  *)
(* C++ takes by reference.                                                 *)
(***************************************************************************)
\* the entries removeIf keeps, and the smallest expiration date among them
unexpiredKeys(map, currentTime) == {k \in DOMAIN map : ~(map[k] <= currentTime)}
nextExpirationOf(map, keys) == Min({WallTimeInfinity} \cup {map[k] : k \in keys})

\* variant: the sweep is skipped
removeExpired_withoutSweep(c, map, next, notificationName) == c
\* removeExpired(PermissionsMap&, WallTime&, const String&)
removeExpired(c, map, next, notificationName) ==
    LET currentTime == c.now
    IN  IF WallTimeNotEqual(c[next], WallTimeNaN) /\ WallTimeGreater(c[next], currentTime)
        THEN c
        ELSE LET kept == unexpiredKeys(c[map], currentTime)
                 removedPermissions == DOMAIN c[map] \ kept
                 swept == [c EXCEPT ![map] = RestrictMap(c[map], kept),
                                    ![next] = nextExpirationOf(c[map], kept)]
             IN  IF removedPermissions = {} \/ notificationName = ""
                 THEN swept
                 ELSE permissionsDidChange(swept, notificationName, removedPermissions)

\* removeExpired(PermissionMatchPatternsMap&, WallTime&, const String&)
removeExpiredMatchPatterns(c, map, next, notificationName) ==
    LET currentTime == c.now
    IN  IF WallTimeNotEqual(c[next], WallTimeNaN) /\ WallTimeGreater(c[next], currentTime)
        THEN c
        ELSE LET kept == unexpiredKeys(c[map], currentTime)
                 removedMatchPatterns == DOMAIN c[map] \ kept
                 swept == [c EXCEPT ![map] = RestrictMap(c[map], kept),
                                    ![next] = nextExpirationOf(c[map], kept)]
             IN  IF removedMatchPatterns = {} \/ notificationName = ""
                 THEN swept
                 ELSE permissionMatchPatternsDidChange(swept, notificationName, removedMatchPatterns)

\* The four accessors: each sweeps its map and returns it (here: the context
\* whose map field is the swept map).
grantedPermissions(c) ==
    removeExpired(c, "m_grantedPermissions", "m_nextGrantedPermissionsExpirationDate",
                  GrantedPermissionsWereRemovedSignal)
grantedPermissionMatchPatterns(c) ==
    removeExpiredMatchPatterns(c, "m_grantedPermissionMatchPatterns",
                               "m_nextGrantedPermissionMatchPatternsExpirationDate",
                               GrantedPermissionMatchPatternsWereRemovedSignal)
deniedPermissions(c) ==
    removeExpired(c, "m_deniedPermissions", "m_nextDeniedPermissionsExpirationDate",
                  DeniedPermissionsWereRemovedSignal)
deniedPermissionMatchPatterns(c) ==
    removeExpiredMatchPatterns(c, "m_deniedPermissionMatchPatterns",
                               "m_nextDeniedPermissionMatchPatternsExpirationDate",
                               DeniedPermissionMatchPatternsWereRemovedSignal)

(***************************************************************************)
(* Removal of named entries (WebExtensionContext::removePermissions and    *)
(* removePermissionMatchPatterns).                                         *)
(***************************************************************************)
removePermissions(c, map, permissionsToRemove, next, notificationName) ==
    IF permissionsToRemove = {} THEN c
    ELSE LET kept == DOMAIN c[map] \ permissionsToRemove
             removedPermissions == DOMAIN c[map] \ kept
             pruned == [c EXCEPT ![map] = RestrictMap(c[map], kept),
                                 ![next] = nextExpirationOf(c[map], kept)]
         IN  IF removedPermissions = {} \/ notificationName = ""
             THEN pruned
             ELSE permissionsDidChange(pruned, notificationName, removedPermissions)

removePermissionMatchPatterns(c, map, matchPatternsToRemove, equalityOnly, next, notificationName) ==
    IF matchPatternsToRemove = {} THEN c
    ELSE LET removedMatchPatterns ==
                 {k \in DOMAIN c[map] :
                     \/ k \in matchPatternsToRemove
                     \/ /\ ~equalityOnly
                        /\ \E patternToRemove \in matchPatternsToRemove :
                               matchesPattern(patternToRemove, k, TRUE)}
             kept == DOMAIN c[map] \ removedMatchPatterns
             pruned == [c EXCEPT ![map] = RestrictMap(c[map], kept),
                                 ![next] = nextExpirationOf(c[map], kept)]
         IN  IF removedMatchPatterns = {} \/ notificationName = ""
             THEN pruned
             ELSE permissionMatchPatternsDidChange(pruned, notificationName, removedMatchPatterns)

removeGrantedPermissions(c, permissionsToRemove) ==
    removePermissions(c, "m_grantedPermissions", permissionsToRemove,
                      "m_nextGrantedPermissionsExpirationDate",
                      GrantedPermissionsWereRemovedSignal)

\* variant: entries that cover a pattern to remove go as well
removeGrantedPermissionMatchPatterns_matchingEitherWay(c, matchPatternsToRemove, equalityOnly) ==
    removePermissionMatchPatterns(
        c, "m_grantedPermissionMatchPatterns",
        matchPatternsToRemove \cup
            {k \in DOMAIN c.m_grantedPermissionMatchPatterns :
                ~equalityOnly /\ \E p \in matchPatternsToRemove : matchesPattern(k, p, TRUE)},
        equalityOnly, "m_nextGrantedPermissionMatchPatternsExpirationDate",
        GrantedPermissionMatchPatternsWereRemovedSignal)
\* (openTabs() is empty: no tab holds a temporary pattern)
removeGrantedPermissionMatchPatterns(c, matchPatternsToRemove, equalityOnly) ==
    removePermissionMatchPatterns(c, "m_grantedPermissionMatchPatterns", matchPatternsToRemove,
                                  equalityOnly,
                                  "m_nextGrantedPermissionMatchPatternsExpirationDate",
                                  GrantedPermissionMatchPatternsWereRemovedSignal)

\* variant: the denied permissions are left alone
removeDeniedPermissions_leavingAll(c, permissionsToRemove) == c
\* (the signal named here is the one the source names)
removeDeniedPermissions(c, permissionsToRemove) ==
    removePermissions(c, "m_deniedPermissions", permissionsToRemove,
                      "m_nextDeniedPermissionsExpirationDate",
                      GrantedPermissionMatchPatternsWereRemovedSignal)

removeDeniedPermissionMatchPatterns(c, matchPatternsToRemove, equalityOnly) ==
    removePermissionMatchPatterns(c, "m_deniedPermissionMatchPatterns", matchPatternsToRemove,
                                  equalityOnly,
                                  "m_nextDeniedPermissionMatchPatternsExpirationDate",
                                  DeniedPermissionMatchPatternsWereRemovedSignal)

(***************************************************************************)
(* Granting and denying.                                                   *)
(***************************************************************************)
\* `if (next > expirationDate) next = expirationDate;`
lowerNextExpirationDate_keeping(c, next, expirationDate) == c
lowerNextExpirationDate(c, next, expirationDate) ==
    IF WallTimeGreater(c[next], expirationDate) THEN [c EXCEPT ![next] = expirationDate] ELSE c

grantPermissions(c, permissions, expirationDate) ==
    IF permissions = {} THEN c
    ELSE LET lowered == lowerNextExpirationDate(c, "m_nextGrantedPermissionsExpirationDate",
                                                expirationDate)
             addedPermissions == permissions \ DOMAIN c.m_grantedPermissions
             added == [lowered EXCEPT !.m_grantedPermissions =
                                          AddAll(@, permissions, expirationDate)]
         IN  IF addedPermissions = {} THEN added
             ELSE permissionsDidChange(removeDeniedPermissions(added, addedPermissions),
                                       PermissionsWereGrantedSignal, addedPermissions)

denyPermissions(c, permissions, expirationDate) ==
    IF permissions = {} THEN c
    ELSE LET lowered == lowerNextExpirationDate(c, "m_nextDeniedPermissionsExpirationDate",
                                                expirationDate)
             addedPermissions == permissions \ DOMAIN c.m_deniedPermissions
             added == [lowered EXCEPT !.m_deniedPermissions =
                                          AddAll(@, permissions, expirationDate)]
         IN  IF addedPermissions = {} THEN added
             ELSE permissionsDidChange(removeGrantedPermissions(added, addedPermissions),
                                       PermissionsWereDeniedSignal, addedPermissions)

grantPermissionMatchPatterns(c, permissionMatchPatterns, expirationDate, equalityOnly) ==
    IF permissionMatchPatterns = {} THEN c
    ELSE LET lowered == lowerNextExpirationDate(
                            c, "m_nextGrantedPermissionMatchPatternsExpirationDate",
                            expirationDate)
             addedMatchPatterns == permissionMatchPatterns \ DOMAIN c.m_grantedPermissionMatchPatterns
             added == [lowered EXCEPT !.m_grantedPermissionMatchPatterns =
                                          AddAll(@, permissionMatchPatterns, expirationDate)]
         IN  IF addedMatchPatterns = {} THEN added
             ELSE permissionMatchPatternsDidChange(
                      removeDeniedPermissionMatchPatterns(added, addedMatchPatterns, equalityOnly),
                      PermissionMatchPatternsWereGrantedSignal, addedMatchPatterns)

denyPermissionMatchPatterns(c, permissionMatchPatterns, expirationDate, equalityOnly) ==
    IF permissionMatchPatterns = {} THEN c
    ELSE LET lowered == lowerNextExpirationDate(
                            c, "m_nextDeniedPermissionMatchPatternsExpirationDate",
                            expirationDate)
             addedMatchPatterns == permissionMatchPatterns \ DOMAIN c.m_deniedPermissionMatchPatterns
             added == [lowered EXCEPT !.m_deniedPermissionMatchPatterns =
                                          AddAll(@, permissionMatchPatterns, expirationDate)]
         IN  IF addedMatchPatterns = {} THEN added
             ELSE permissionMatchPatternsDidChange(
                      removeGrantedPermissionMatchPatterns(added, addedMatchPatterns, equalityOnly),
                      PermissionMatchPatternsWereDeniedSignal, addedMatchPatterns)

(***************************************************************************)
(* Permission state of a permission name.                                  *)
(***************************************************************************)
permissionStateOfPermission(c, permission, options) ==
    IF permission \notin supportedPermissions THEN Returned(c, "Unknown")
    ELSE LET denied == deniedPermissions(c)
         IN  IF permission \in DOMAIN denied.m_deniedPermissions
             THEN Returned(denied, "DeniedExplicitly")
             ELSE LET granted == grantedPermissions(denied)
                  IN  IF permission \in DOMAIN granted.m_grantedPermissions
                      THEN Returned(granted, "GrantedExplicitly")
                      ELSE IF SkipRequestedPermissions \in options
                      THEN Returned(granted, "Unknown")
                      ELSE IF hasRequestedPermission(granted, permission)
                      THEN Returned(granted, "RequestedExplicitly")
                      ELSE IF /\ IncludeOptionalPermissions \in options
                              /\ permission \in granted.manifest.optionalPermissions
                      THEN Returned(granted, "RequestedImplicitly")
                      ELSE Returned(granted, "Unknown")

isGranted(state) == state \in {"GrantedImplicitly", "GrantedExplicitly"}

hasPermission(c, permission, options) ==
    LET state == permissionStateOfPermission(c, permission,
                                             options \cup {SkipRequestedPermissions})
    IN  Returned(state.ctx, isGranted(state.ret))

(***************************************************************************)
(* Permission state of a URL, with the cache of recent results.            *)
(***************************************************************************)
maximumCachedPermissionResults == 1

Range(seq) == {seq[i] : i \in DOMAIN seq}
appendOrMoveToLast(seq, url) == SelectSeq(seq, LAMBDA x : x # url) \o << url >>
isURLForThisExtension(url) == url.scheme \in extensionSchemes

cacheResultAndReturn(c, url, result) ==
    LET urls == appendOrMoveToLast(c.m_cachedPermissionURLs, url)
        states == [u \in DOMAIN c.m_cachedPermissionStates \cup {url} |->
                      IF u = url THEN result ELSE c.m_cachedPermissionStates[u]]
    IN  IF Len(urls) <= maximumCachedPermissionResults
        THEN Returned([c EXCEPT !.m_cachedPermissionURLs = urls,
                                !.m_cachedPermissionStates = states], result)
        ELSE LET firstCachedURL == Head(urls)
             IN  Returned([c EXCEPT !.m_cachedPermissionURLs = Tail(urls),
                                    !.m_cachedPermissionStates =
                                        RestrictMap(states, DOMAIN states \ {firstCachedURL})],
                          result)

\* variant: host-specific patterns never match
urlMatchesPatternIgnoringWildcardHostPatterns_never(pattern, url) == FALSE
urlMatchesPatternIgnoringWildcardHostPatterns(pattern, url) ==
    ~matchesAllHosts(pattern) /\ matchesURL(pattern, url)
urlMatchesWildcardHostPatterns(pattern, url) ==
    matchesAllHosts(pattern) /\ matchesURL(pattern, url)

\* the part of permissionState(const URL&) that runs after a cache miss
uncachedPermissionState(c, url, options) ==
    LET skipRequestedPermissions == SkipRequestedPermissions \in options
        denied == DOMAIN c.m_deniedPermissionMatchPatterns
        granted == DOMAIN c.m_grantedPermissionMatchPatterns
        requested == c.manifest.requestedIterationOrder
        \* either lambda of the loop body matches: the loop returns at this pattern
        matching == {i \in DOMAIN requested : matchesURL(requested[i], url)}
    IN  IF \E k \in denied : urlMatchesPatternIgnoringWildcardHostPatterns(k, url)
        THEN cacheResultAndReturn(c, url, "DeniedExplicitly")
        ELSE IF \E k \in granted : urlMatchesPatternIgnoringWildcardHostPatterns(k, url)
        THEN cacheResultAndReturn(c, url, "GrantedExplicitly")
        ELSE IF \E k \in denied : urlMatchesWildcardHostPatterns(k, url)
        THEN cacheResultAndReturn(c, url, "DeniedImplicitly")
        ELSE IF \E k \in granted : urlMatchesWildcardHostPatterns(k, url)
        THEN cacheResultAndReturn(c, url, "GrantedImplicitly")
        ELSE IF skipRequestedPermissions
        THEN cacheResultAndReturn(c, url, "Unknown")
        ELSE IF matching # {}
        THEN IF urlMatchesPatternIgnoringWildcardHostPatterns(requested[Min(matching)], url)
             THEN cacheResultAndReturn(c, url, "RequestedExplicitly")
             ELSE cacheResultAndReturn(c, url, "RequestedImplicitly")
        ELSE LET webNavigation == hasPermission(c, "webNavigation", options)
             IN  IF webNavigation.ret
                 THEN cacheResultAndReturn(webNavigation.ctx, url, "RequestedImplicitly")
                 ELSE LET feedback == hasPermission(webNavigation.ctx,
                                                    "declarativeNetRequestFeedback", options)
                      IN  IF feedback.ret
                          THEN cacheResultAndReturn(feedback.ctx, url, "RequestedImplicitly")
                          ELSE IF RequestedWithTabsPermission \in options
                          THEN LET tabs == hasPermission(feedback.ctx, "tabs", options)
                               IN  IF tabs.ret
                                   THEN Returned(tabs.ctx, "RequestedImplicitly")
                                   ELSE cacheResultAndReturn(tabs.ctx, url, "Unknown")
                          ELSE cacheResultAndReturn(feedback.ctx, url, "Unknown")

permissionStateOfURL(c, url, options) ==
    IF isURLForThisExtension(url) THEN Returned(c, "GrantedImplicitly")
    ELSE IF url.scheme \notin validSchemes THEN Returned(c, "Unknown")
    ELSE LET skipRequestedPermissions == SkipRequestedPermissions \in options
             swept == deniedPermissionMatchPatterns(grantedPermissionMatchPatterns(c))
             cachedState == swept.m_cachedPermissionStates[url]
         IN  IF /\ url \in Range(swept.m_cachedPermissionURLs)
                /\ (cachedState # "Unknown" \/ skipRequestedPermissions)
             THEN LET hit == [swept EXCEPT !.m_cachedPermissionURLs =
                                               appendOrMoveToLast(@, url)]
                  IN  IF /\ cachedState \in {"RequestedExplicitly", "RequestedImplicitly"}
                         /\ skipRequestedPermissions
                      THEN Returned(hit, "Unknown")
                      ELSE Returned(hit, cachedState)
             ELSE uncachedPermissionState(swept, url, options)

\* variant: a requested state counts as access
hasPermissionForURL_countingRequested(c, url, options) ==
    LET state == permissionStateOfURL(c, url, options)
    IN  Returned(state.ctx, state.ret \in {"GrantedImplicitly", "GrantedExplicitly",
                                          "RequestedImplicitly", "RequestedExplicitly"})
hasPermissionForURL(c, url, options) ==
    LET state == permissionStateOfURL(c, url, options \cup {SkipRequestedPermissions})
    IN  Returned(state.ctx, isGranted(state.ret))

(***************************************************************************)
(* Setting the state of one permission, URL or match pattern.              *)
(***************************************************************************)
\* variant: GrantedImplicitly is taken for a grant
setPermissionState_grantingImplicitly(c, state, permission, expirationDate) ==
    CASE state = "DeniedExplicitly" -> denyPermissions(c, {permission}, expirationDate)
      [] state = "Unknown" ->
             removeDeniedPermissions(removeGrantedPermissions(c, {permission}), {permission})
      [] state \in {"GrantedExplicitly", "GrantedImplicitly"} ->
             grantPermissions(c, {permission}, expirationDate)
      [] OTHER -> c
\* variant: Unknown leaves the denied permissions alone
setPermissionState_unknownKeepingDenied(c, state, permission, expirationDate) ==
    CASE state = "DeniedExplicitly" -> denyPermissions(c, {permission}, expirationDate)
      [] state = "Unknown" -> removeGrantedPermissions(c, {permission})
      [] state = "GrantedExplicitly" -> grantPermissions(c, {permission}, expirationDate)
      [] OTHER -> c
setPermissionState(c, state, permission, expirationDate) ==
    CASE state = "DeniedExplicitly" -> denyPermissions(c, {permission}, expirationDate)
      [] state = "Unknown" ->
             removeDeniedPermissions(removeGrantedPermissions(c, {permission}), {permission})
      [] state = "GrantedExplicitly" -> grantPermissions(c, {permission}, expirationDate)
      [] OTHER -> c

setPermissionStateOfMatchPattern(c, state, pattern, expirationDate) ==
    LET equalityOnly == matchesAllHosts(pattern)
    IN  CASE state = "DeniedExplicitly" ->
                 denyPermissionMatchPatterns(c, {pattern}, expirationDate, equalityOnly)
          [] state = "Unknown" ->
                 removeDeniedPermissionMatchPatterns(
                     removeGrantedPermissionMatchPatterns(c, {pattern}, equalityOnly),
                     {pattern}, equalityOnly)
          [] state = "GrantedExplicitly" ->
                 grantPermissionMatchPatterns(c, {pattern}, expirationDate, equalityOnly)
          [] OTHER -> c

setPermissionStateOfURL(c, state, url, expirationDate) ==
    setPermissionStateOfMatchPattern(c, state, patternForURL(url), expirationDate)

(***************************************************************************)
(* Blanket access.                                                         *)
(***************************************************************************)
\* the context after the sweep; its granted match-pattern keys are the result
currentPermissionMatchPatterns(c) == grantedPermissionMatchPatterns(c)

hasAccessToAllURLs(c) ==
    LET current == currentPermissionMatchPatterns(c)
    IN  Returned(current,
                 \E pattern \in DOMAIN current.m_grantedPermissionMatchPatterns :
                     matchesAllURLs(pattern))

hasAccessToAllHosts(c) ==
    LET current == currentPermissionMatchPatterns(c)
    IN  Returned(current,
                 \E pattern \in DOMAIN current.m_grantedPermissionMatchPatterns :
                     matchesAllHosts(pattern))

(***************************************************************************)
(* The bulk setters: the new map replaces the old one, after its expired   *)
(* entries are dropped without a notification.                             *)
(***************************************************************************)
setGrantedPermissions(c, newMap) ==
    LET old == DOMAIN c.m_grantedPermissions
        replaced == removeExpired(
                        [c EXCEPT !.m_grantedPermissions = newMap,
                                  !.m_nextGrantedPermissionsExpirationDate = WallTimeNaN],
                        "m_grantedPermissions", "m_nextGrantedPermissionsExpirationDate", "")
        addedPermissions == DOMAIN replaced.m_grantedPermissions \ old
        removedPermissions == old \ DOMAIN replaced.m_grantedPermissions
    IN  IF addedPermissions = {} /\ removedPermissions = {} THEN replaced
        ELSE permissionsDidChange(
                 permissionsDidChange(removeDeniedPermissions(replaced, addedPermissions),
                                      GrantedPermissionsWereRemovedSignal, removedPermissions),
                 PermissionsWereGrantedSignal, addedPermissions)

setDeniedPermissions(c, newMap) ==
    LET old == DOMAIN c.m_deniedPermissions
        replaced == removeExpired(
                        [c EXCEPT !.m_deniedPermissions = newMap,
                                  !.m_nextDeniedPermissionsExpirationDate = WallTimeNaN],
                        "m_deniedPermissions", "m_nextDeniedPermissionsExpirationDate", "")
        addedPermissions == DOMAIN replaced.m_deniedPermissions \ old
        removedPermissions == old \ DOMAIN replaced.m_deniedPermissions
    IN  IF addedPermissions = {} /\ removedPermissions = {} THEN replaced
        ELSE permissionsDidChange(
                 permissionsDidChange(removeGrantedPermissions(replaced, addedPermissions),
                                      DeniedPermissionsWereRemovedSignal, removedPermissions),
                 PermissionsWereDeniedSignal, addedPermissions)

setGrantedPermissionMatchPatterns(c, newMap, equalityOnly) ==
    LET old == DOMAIN c.m_grantedPermissionMatchPatterns
        replaced == removeExpiredMatchPatterns(
                        [c EXCEPT !.m_grantedPermissionMatchPatterns = newMap,
                                  !.m_nextGrantedPermissionMatchPatternsExpirationDate = WallTimeNaN],
                        "m_grantedPermissionMatchPatterns",
                        "m_nextGrantedPermissionMatchPatternsExpirationDate", "")
        addedMatchPatterns == DOMAIN replaced.m_grantedPermissionMatchPatterns \ old
        removedMatchPatterns == old \ DOMAIN replaced.m_grantedPermissionMatchPatterns
    IN  IF addedMatchPatterns = {} /\ removedMatchPatterns = {} THEN replaced
        ELSE permissionMatchPatternsDidChange(
                 permissionMatchPatternsDidChange(
                     removeDeniedPermissionMatchPatterns(replaced, addedMatchPatterns, equalityOnly),
                     GrantedPermissionMatchPatternsWereRemovedSignal, removedMatchPatterns),
                 PermissionMatchPatternsWereGrantedSignal, addedMatchPatterns)

setDeniedPermissionMatchPatterns(c, newMap, equalityOnly) ==
    LET old == DOMAIN c.m_deniedPermissionMatchPatterns
        replaced == removeExpiredMatchPatterns(
                        [c EXCEPT !.m_deniedPermissionMatchPatterns = newMap,
                                  !.m_nextDeniedPermissionMatchPatternsExpirationDate = WallTimeNaN],
                        "m_deniedPermissionMatchPatterns",
                        "m_nextDeniedPermissionMatchPatternsExpirationDate", "")
        addedMatchPatterns == DOMAIN replaced.m_deniedPermissionMatchPatterns \ old
        removedMatchPatterns == old \ DOMAIN replaced.m_deniedPermissionMatchPatterns
    IN  IF addedMatchPatterns = {} /\ removedMatchPatterns = {} THEN replaced
        ELSE permissionMatchPatternsDidChange(
                 permissionMatchPatternsDidChange(
                     removeGrantedPermissionMatchPatterns(replaced, addedMatchPatterns, equalityOnly),
                     DeniedPermissionMatchPatternsWereRemovedSignal, removedMatchPatterns),
                 PermissionMatchPatternsWereDeniedSignal, addedMatchPatterns)

(***************************************************************************)
(* The GLib API.  A GDateTime argument is a number of ticks or NoDate for  *)
(* NULL; a status argument is one of the seven API status names.  Each     *)
(* function is given the context c it is called on and returns the context *)
(* it leaves behind, with its result when it has one.                      *)
(***************************************************************************)
PermissionStatuses ==
    {"DENIED_EXPLICITLY", "DENIED_IMPLICITLY", "REQUESTED_IMPLICITLY", "UNKNOWN",
     "REQUESTED_EXPLICITLY", "GRANTED_IMPLICITLY", "GRANTED_EXPLICITLY"}

toAPI(status) ==
    CASE status = "DeniedExplicitly" -> "DENIED_EXPLICITLY"
      [] status = "DeniedImplicitly" -> "DENIED_IMPLICITLY"
      [] status = "RequestedImplicitly" -> "REQUESTED_IMPLICITLY"
      [] status = "Unknown" -> "UNKNOWN"
      [] status = "RequestedExplicitly" -> "REQUESTED_EXPLICITLY"
      [] status = "GrantedImplicitly" -> "GRANTED_IMPLICITLY"
      [] status = "GrantedExplicitly" -> "GRANTED_EXPLICITLY"
      [] OTHER -> "UNKNOWN"

toImpl(status) ==
    CASE status = "DENIED_EXPLICITLY" -> "DeniedExplicitly"
      [] status = "DENIED_IMPLICITLY" -> "DeniedImplicitly"
      [] status = "REQUESTED_IMPLICITLY" -> "RequestedImplicitly"
      [] status = "UNKNOWN" -> "Unknown"
      [] status = "REQUESTED_EXPLICITLY" -> "RequestedExplicitly"
      [] status = "GRANTED_IMPLICITLY" -> "GrantedImplicitly"
      [] status = "GRANTED_EXPLICITLY" -> "GrantedExplicitly"
      [] OTHER -> "Unknown"

\* the statuses the g_return_if_fail of the three status setters lets through
settableStatuses == {"DENIED_EXPLICITLY", "UNKNOWN", "GRANTED_EXPLICITLY"}

\* `expirationDate ? WallTime::fromRawSeconds(g_date_time_to_unix(expirationDate))
\*                 : <the default argument of setPermissionState>`
expirationOfStatus(date) == IF date = NoDate THEN WallTimeInfinity ELSE fromRawSeconds(date)

\* webkit_web_extension_context_permission_new / _match_pattern_new: NULL is
\* 9999-12-31 23:59:00, any other date is cut to whole seconds
distantFuture == 998
expirationOfEntry(date) == IF date = NoDate THEN distantFuture ELSE fromRawSeconds(date)

webkit_web_extension_context_set_permission_status_for_permission(c, permission, status, date) ==
    IF status \in settableStatuses
    THEN setPermissionState(c, toImpl(status), permission, expirationOfStatus(date))
    ELSE c

webkit_web_extension_context_set_permission_status_for_uri(c, uri, status, date) ==
    IF status \in settableStatuses
    THEN setPermissionStateOfURL(c, toImpl(status), uri, expirationOfStatus(date))
    ELSE c

webkit_web_extension_context_set_permission_status_for_match_pattern(c, pattern, status, date) ==
    IF status \in settableStatuses
    THEN setPermissionStateOfMatchPattern(c, toImpl(status), pattern, expirationOfStatus(date))
    ELSE c

\* variant: every entry gets the distant-future date
mapOfEntries_neverExpiring(list) == [k \in DOMAIN list |-> distantFuture]
\* the HashMap the bulk setters build from a list of entries made by the
\* entry constructors; `list` maps each listed key to its date argument
mapOfEntries(list) == [k \in DOMAIN list |-> fromRawSeconds(expirationOfEntry(list[k]))]

webkit_web_extension_context_set_granted_permissions(c, list) ==
    setGrantedPermissions(c, mapOfEntries(list))
webkit_web_extension_context_set_denied_permissions(c, list) ==
    setDeniedPermissions(c, mapOfEntries(list))
webkit_web_extension_context_set_granted_permission_match_patterns(c, list) ==
    setGrantedPermissionMatchPatterns(c, mapOfEntries(list), TRUE)
webkit_web_extension_context_set_denied_permission_match_patterns(c, list) ==
    setDeniedPermissionMatchPatterns(c, mapOfEntries(list), TRUE)

\* the getters return the swept map; NULL is the empty map
webkit_web_extension_context_get_granted_permissions(c) ==
    LET swept == grantedPermissions(c) IN Returned(swept, swept.m_grantedPermissions)
webkit_web_extension_context_get_denied_permissions(c) ==
    LET swept == deniedPermissions(c) IN Returned(swept, swept.m_deniedPermissions)
webkit_web_extension_context_get_granted_permission_match_patterns(c) ==
    LET swept == grantedPermissionMatchPatterns(c)
    IN  Returned(swept, swept.m_grantedPermissionMatchPatterns)
webkit_web_extension_context_get_denied_permission_match_patterns(c) ==
    LET swept == deniedPermissionMatchPatterns(c)
    IN  Returned(swept, swept.m_deniedPermissionMatchPatterns)

\* the default options of the permission and URL overloads
defaultPermissionOptions == {}
defaultURLOptions == {RequestedWithTabsPermission}

webkit_web_extension_context_has_permission(c, permission) ==
    hasPermission(c, permission, defaultPermissionOptions)
webkit_web_extension_context_permission_status_for_permission(c, permission) ==
    LET state == permissionStateOfPermission(c, permission, defaultPermissionOptions)
    IN  Returned(state.ctx, toAPI(state.ret))
webkit_web_extension_context_has_access_to_uri(c, uri) ==
    hasPermissionForURL(c, uri, defaultURLOptions)
webkit_web_extension_context_permission_status_for_uri(c, uri) ==
    LET state == permissionStateOfURL(c, uri, defaultURLOptions)
    IN  Returned(state.ctx, toAPI(state.ret))
webkit_web_extension_context_get_has_access_to_all_uris(c) == hasAccessToAllURLs(c)
webkit_web_extension_context_get_has_access_to_all_hosts(c) == hasAccessToAllHosts(c)

(***************************************************************************)
(* Specifications.                                                         *)
(***************************************************************************)
MaxListLen == 2

ExtensionURL == Url("webkit-extension", "", "extension-id", "/")
QueryURIs == {ExampleURL, WebKitURL, ExtensionURL}

\* a status setter reads its date only after its status passed the check
DatesFor(status) == IF status \in settableStatuses THEN DateArguments ELSE {NoDate}

\* the lists a bulk setter is given: NULL (the empty list) included
ListsOf(keys) ==
    UNION {[S -> DateArguments] : S \in {T \in SUBSET keys : Cardinality(T) <= MaxListLen}}

\* the manifest of testPermissionGranting
GrantingManifest == Manifest({"tabs"}, {ExampleSubdomainsPattern})

InitWith(manifests, loaded) ==
    /\ now = 0
    /\ manifest \in manifests
    /\ m_grantedPermissions = EmptyMap
    /\ m_deniedPermissions = EmptyMap
    /\ m_grantedPermissionMatchPatterns = EmptyMap
    /\ m_deniedPermissionMatchPatterns = EmptyMap
    /\ m_nextGrantedPermissionsExpirationDate = WallTimeNaN
    /\ m_nextDeniedPermissionsExpirationDate = WallTimeNaN
    /\ m_nextGrantedPermissionMatchPatternsExpirationDate = WallTimeNaN
    /\ m_nextDeniedPermissionMatchPatternsExpirationDate = WallTimeNaN
    /\ m_cachedPermissionStates = EmptyMap
    /\ m_cachedPermissionURLs = << >>
    /\ signals = {}
    /\ isLoaded \in loaded
    /\ m_backgroundWebView = "null"
    /\ m_backgroundContentIsLoaded = FALSE
    /\ m_backgroundContentLoadError = "null"
    /\ m_actionsToPerformAfterBackgroundContentLoads = << >>
    /\ tasks = [t \in 1 .. MaxTasks |-> [result |-> "none", callbacks |-> 0]]

Init == InitWith(Manifests, {FALSE})
InitGranting == InitWith({GrantingManifest}, {FALSE})

SetPermissionStatusForPermission(permissions) ==
    \E permission \in permissions, status \in PermissionStatuses :
        \E date \in DatesFor(status) :
            Install(webkit_web_extension_context_set_permission_status_for_permission(
                        Ctx, permission, status, date))
SetGrantedPermissions(permissions) ==
    \E list \in ListsOf(permissions) :
        Install(webkit_web_extension_context_set_granted_permissions(Ctx, list))
SetDeniedPermissions(permissions) ==
    \E list \in ListsOf(permissions) :
        Install(webkit_web_extension_context_set_denied_permissions(Ctx, list))
HasPermission(permissions) ==
    \E permission \in permissions :
        Install(webkit_web_extension_context_has_permission(Ctx, permission).ctx)
PermissionStatusForPermission(permissions) ==
    \E permission \in permissions :
        Install(webkit_web_extension_context_permission_status_for_permission(
                    Ctx, permission).ctx)

SetPermissionStatusForURI(uris) ==
    \E uri \in uris, status \in PermissionStatuses :
        \E date \in DatesFor(status) :
            Install(webkit_web_extension_context_set_permission_status_for_uri(
                        Ctx, uri, status, date))
SetPermissionStatusForMatchPattern(patterns) ==
    \E pattern \in patterns, status \in PermissionStatuses :
        \E date \in DatesFor(status) :
            Install(webkit_web_extension_context_set_permission_status_for_match_pattern(
                        Ctx, pattern, status, date))
SetGrantedPermissionMatchPatterns(patterns) ==
    \E list \in ListsOf(patterns) :
        Install(webkit_web_extension_context_set_granted_permission_match_patterns(Ctx, list))
SetDeniedPermissionMatchPatterns(patterns) ==
    \E list \in ListsOf(patterns) :
        Install(webkit_web_extension_context_set_denied_permission_match_patterns(Ctx, list))
HasAccessToURI(uris) ==
    \E uri \in uris :
        Install(webkit_web_extension_context_has_access_to_uri(Ctx, uri).ctx)
PermissionStatusForURI(uris) ==
    \E uri \in uris :
        Install(webkit_web_extension_context_permission_status_for_uri(Ctx, uri).ctx)

GetGrantedPermissions ==
    Install(webkit_web_extension_context_get_granted_permissions(Ctx).ctx)
GetDeniedPermissions ==
    Install(webkit_web_extension_context_get_denied_permissions(Ctx).ctx)
GetGrantedPermissionMatchPatterns ==
    Install(webkit_web_extension_context_get_granted_permission_match_patterns(Ctx).ctx)
GetDeniedPermissionMatchPatterns ==
    Install(webkit_web_extension_context_get_denied_permission_match_patterns(Ctx).ctx)
GetHasAccessToAllURIs ==
    Install(webkit_web_extension_context_get_has_access_to_all_uris(Ctx).ctx)
GetHasAccessToAllHosts ==
    Install(webkit_web_extension_context_get_has_access_to_all_hosts(Ctx).ctx)

\* WallTime::now() advances
Tick == now < MaxTime /\ now' = now + 1 /\ UNCHANGED << manifest, m_grantedPermissions,
    m_deniedPermissions, m_grantedPermissionMatchPatterns, m_deniedPermissionMatchPatterns,
    m_nextGrantedPermissionsExpirationDate, m_nextDeniedPermissionsExpirationDate,
    m_nextGrantedPermissionMatchPatternsExpirationDate,
    m_nextDeniedPermissionMatchPatternsExpirationDate,
    m_cachedPermissionStates, m_cachedPermissionURLs, signals >>
    /\ UNCHANGED backgroundVars

PermissionOperations(permissions) ==
    \/ SetPermissionStatusForPermission(permissions)
    \/ SetGrantedPermissions(permissions)
    \/ SetDeniedPermissions(permissions)
    \/ GetGrantedPermissions
    \/ GetDeniedPermissions
    \/ HasPermission(permissions)
    \/ PermissionStatusForPermission(permissions)

MatchPatternOperations(patterns, uris) ==
    \/ SetPermissionStatusForURI(uris)
    \/ SetPermissionStatusForMatchPattern(patterns)
    \/ GetGrantedPermissionMatchPatterns
    \/ GetDeniedPermissionMatchPatterns
    \/ HasAccessToURI(QueryURIs)
    \/ PermissionStatusForURI(QueryURIs)
    \/ GetHasAccessToAllURIs
    \/ GetHasAccessToAllHosts

BulkMatchPatternOperations(patterns) ==
    \/ SetGrantedPermissionMatchPatterns(patterns)
    \/ SetDeniedPermissionMatchPatterns(patterns)

\* the status setters and the queries at one instant, under each of the manifests
\* of the tests
NextRequested ==
    \/ SetPermissionStatusForPermission({"tabs"})
    \/ HasPermission({"tabs", "cookies"})
    \/ PermissionStatusForPermission({"tabs", "cookies"})
    \/ MatchPatternOperations({AllURLsPattern}, {ExampleURL})

\* the setters and getters of the four lists, the status setters of a permission
\* and of a URL and the status of that URL, under the manifest of
\* testPermissionGranting
Next ==
    \/ SetPermissionStatusForPermission({"tabs"})
    \/ SetGrantedPermissions({"tabs"})
    \/ SetDeniedPermissions({"tabs"})
    \/ GetGrantedPermissions
    \/ GetDeniedPermissions
    \/ SetPermissionStatusForURI({ExampleURL})
    \/ BulkMatchPatternOperations({AllURLsPattern, patternForURL(ExampleURL)})
    \/ GetGrantedPermissionMatchPatterns
    \/ GetDeniedPermissionMatchPatterns
    \/ PermissionStatusForURI({ExampleURL})
    \/ Tick

\* the four bulk setters and the four getters, under the manifest of
\* testPermissionGranting
NextBulk ==
    \/ SetGrantedPermissions({"tabs", "cookies"})
    \/ SetDeniedPermissions({"tabs", "cookies"})
    \/ BulkMatchPatternOperations({AllURLsPattern, patternForURL(ExampleURL)})
    \/ GetGrantedPermissions
    \/ GetDeniedPermissions
    \/ GetGrantedPermissionMatchPatterns
    \/ GetDeniedPermissionMatchPatterns
    \/ Tick

\* the permission half of the API, under each of the manifests of the tests
NextPermissions ==
    \/ PermissionOperations({"tabs", "cookies"})
    \/ Tick

\* the match-pattern half of the API, under each of the manifests of the tests
NextMatchPatterns ==
    \/ MatchPatternOperations({AllURLsPattern, ExampleSubdomainsPattern}, {ExampleURL})
    \/ Tick

Spec == InitGranting /\ [][Next]_vars
SpecBulk == InitGranting /\ [][NextBulk]_vars
SpecRequested == Init /\ [][NextRequested]_vars
SpecPermissions == Init /\ [][NextPermissions]_vars
SpecMatchPatterns == Init /\ [][NextMatchPatterns]_vars

(***************************************************************************)
(* What the API answers when called on a context c.                        *)
(***************************************************************************)
statusForURI(c, uri) == webkit_web_extension_context_permission_status_for_uri(c, uri).ret
hasAccessToURI(c, uri) == webkit_web_extension_context_has_access_to_uri(c, uri).ret
statusForPermission(c, permission) ==
    webkit_web_extension_context_permission_status_for_permission(c, permission).ret
hasPermissionNamed(c, permission) ==
    webkit_web_extension_context_has_permission(c, permission).ret
getGrantedPermissions(c) == webkit_web_extension_context_get_granted_permissions(c).ret
getDeniedPermissions(c) == webkit_web_extension_context_get_denied_permissions(c).ret
getGrantedPermissionMatchPatterns(c) ==
    webkit_web_extension_context_get_granted_permission_match_patterns(c).ret
getDeniedPermissionMatchPatterns(c) ==
    webkit_web_extension_context_get_denied_permission_match_patterns(c).ret
getHasAccessToAllURIs(c) == webkit_web_extension_context_get_has_access_to_all_uris(c).ret
getHasAccessToAllHosts(c) == webkit_web_extension_context_get_has_access_to_all_hosts(c).ret

WebURIs == {ExampleURL, WebKitURL}
URLOptions == {defaultURLOptions, defaultURLOptions \cup {SkipRequestedPermissions}}

\* the entries of a map that are in force at the current time
inForce(map) == {k \in DOMAIN map : map[k] > now}

C2_OnlyAllHostsGranted(c) ==
    /\ Cardinality(DOMAIN getGrantedPermissionMatchPatterns(c)) = 1
    /\ \A k \in DOMAIN getGrantedPermissionMatchPatterns(c) : matchesAllHosts(k)
    /\ getDeniedPermissionMatchPatterns(c) = EmptyMap

C2_AfterDenying(c, uri) ==
    /\ statusForURI(c, uri) = "DENIED_EXPLICITLY"
    /\ ~hasAccessToURI(c, uri)
    /\ \A other \in WebURIs \ {uri} : statusForURI(c, other) = "GRANTED_IMPLICITLY"
    /\ C2_OnlyAllHostsGranted([c EXCEPT !.m_deniedPermissionMatchPatterns = EmptyMap])
    /\ DOMAIN getDeniedPermissionMatchPatterns(c) = {patternForURL(uri)}

C2_DenyingOneURLUnderAllHosts ==
    \A date \in DateArguments :
        (C2_OnlyAllHostsGranted(Ctx) /\ expirationOfStatus(date) > now)
        => C2_AfterDenying(
               webkit_web_extension_context_set_permission_status_for_uri(
                   Ctx, ExampleURL, "DENIED_EXPLICITLY", date),
               ExampleURL)

(***************************************************************************)
(* C3.  The getters never include expired entries: in every reachable      *)
(* state, every entry that get_granted_permissions,                        *)
(* get_granted_permission_match_patterns, get_denied_permissions and       *)
(* get_denied_permission_match_patterns would return has an expiration     *)
(* date later than the current time.                                       *)
(***************************************************************************)
C3_GettersExcludeExpired ==
    /\ \A k \in DOMAIN getGrantedPermissions(Ctx) : getGrantedPermissions(Ctx)[k] > now
    /\ \A k \in DOMAIN getGrantedPermissionMatchPatterns(Ctx) :
           getGrantedPermissionMatchPatterns(Ctx)[k] > now
    /\ \A k \in DOMAIN getDeniedPermissions(Ctx) : getDeniedPermissions(Ctx)[k] > now
    /\ \A k \in DOMAIN getDeniedPermissionMatchPatterns(Ctx) :
           getDeniedPermissionMatchPatterns(Ctx)[k] > now

\* after the clock moved, a permission map and a match-pattern map still hold an
\* entry whose date has passed, the latter next to an entry in force
C3_Witness ==
    /\ DOMAIN m_grantedPermissions # inForce(m_grantedPermissions)
    /\ DOMAIN m_grantedPermissionMatchPatterns # inForce(m_grantedPermissionMatchPatterns)
    /\ inForce(m_grantedPermissionMatchPatterns) # {}
    /\ now > 0

(***************************************************************************)
(* C4.  A granted match pattern lapses at its expiration date without any  *)
(* revoke call: whenever the date of every entry of the granted            *)
(* match-pattern map has passed - also while the cache still holds the     *)
(* Granted state of a URL queried before that date - has_access_to_uri is  *)
(* FALSE for every URL, has_access_to_all_uris is FALSE, the granted       *)
(* match-pattern list is NULL (empty), and the status of a URL that no     *)
(* denied pattern matches is the one the requested patterns of the         *)
(* manifest determine: REQUESTED_EXPLICITLY under a host-specific          *)
(* requested pattern that matches it, REQUESTED_IMPLICITLY under an        *)
(* all-hosts one, UNKNOWN under none.                                      *)
(***************************************************************************)
C4_AllGrantsLapsed ==
    /\ m_grantedPermissionMatchPatterns # EmptyMap
    /\ inForce(m_grantedPermissionMatchPatterns) = {}

C4_RequestedStatus(uri) ==
    IF \E k \in manifest.allRequestedMatchPatterns :
           ~matchesAllHosts(k) /\ matchesURL(k, uri)
    THEN "REQUESTED_EXPLICITLY"
    ELSE IF \E k \in manifest.allRequestedMatchPatterns : matchesURL(k, uri)
    THEN "REQUESTED_IMPLICITLY"
    ELSE "UNKNOWN"

C5_LapsedAtExpiration ==
    \A p \in DOMAIN m_grantedPermissions \ inForce(m_grantedPermissions) :
        ~hasPermissionNamed(Ctx, p) /\ p \notin DOMAIN getGrantedPermissions(Ctx)

C5_HeldAfterGranting ==
    \A p \in supportedPermissions, date \in DateArguments :
        expirationOfStatus(date) > now
        => hasPermissionNamed(
               webkit_web_extension_context_set_permission_status_for_permission(
                   Ctx, p, "GRANTED_EXPLICITLY", date),
               p)

C5_GrantHoldsUntilExpiration == C5_LapsedAtExpiration /\ C5_HeldAfterGranting

(***************************************************************************)
(* C6.  No permission name is a key of both the granted and the denied     *)
(* permission map, and no match pattern is a key of both the granted and   *)
(* the denied match-pattern map, in any reachable state.                   *)
(***************************************************************************)
C6_GrantedAndDeniedDisjoint ==
    /\ DOMAIN m_grantedPermissions \cap DOMAIN m_deniedPermissions = {}
    /\ DOMAIN m_grantedPermissionMatchPatterns \cap DOMAIN m_deniedPermissionMatchPatterns = {}

\* the last call granted a permission and took it out of the denied map, while
\* a match pattern is denied next to a granted one
C6_Witness ==
    /\ "notify::" \o PermissionsWereGrantedSignal \in signals
    /\ "notify::" \o GrantedPermissionMatchPatternsWereRemovedSignal \in signals
    /\ m_grantedPermissions # EmptyMap
    /\ m_deniedPermissionMatchPatterns # EmptyMap
    /\ m_grantedPermissionMatchPatterns # EmptyMap

(***************************************************************************)
(* C7.  has_permission and has_access_to_uri answer TRUE only for a        *)
(* permission or URL whose status is GRANTED_EXPLICITLY or                 *)
(* GRANTED_IMPLICITLY; a permission with no granted entry in force and a   *)
(* web URL that no granted pattern in force matches are not reported as    *)
(* held, whatever the manifest requests; and has_access_to_all_uris and    *)
(* has_access_to_all_hosts are FALSE while no granted pattern in force is  *)
(* <all_urls>, respectively an all-hosts pattern.                          *)
(***************************************************************************)
C7_GrantedStatuses == {"GRANTED_EXPLICITLY", "GRANTED_IMPLICITLY"}

C7_HeldOnlyIfGranted ==
    /\ \A p \in supportedPermissions :
           /\ hasPermissionNamed(Ctx, p) => statusForPermission(Ctx, p) \in C7_GrantedStatuses
           /\ p \notin inForce(m_grantedPermissions) => ~hasPermissionNamed(Ctx, p)
    /\ \A u \in QueryURIs :
           hasAccessToURI(Ctx, u) => statusForURI(Ctx, u) \in C7_GrantedStatuses
    /\ \A u \in WebURIs :
           (\A k \in inForce(m_grantedPermissionMatchPatterns) : ~matchesURL(k, u))
               => ~hasAccessToURI(Ctx, u)
    /\ (\A k \in inForce(m_grantedPermissionMatchPatterns) : ~matchesAllURLs(k))
           => ~getHasAccessToAllURIs(Ctx)
    /\ (\A k \in inForce(m_grantedPermissionMatchPatterns) : ~matchesAllHosts(k))
           => ~getHasAccessToAllHosts(Ctx)

\* the manifest requests "tabs" and an all-hosts pattern; "tabs" is granted and
\* held, no match pattern is granted, and the cache holds the requested state of
\* a URL
C7_Witness ==
    /\ \E k \in manifest.allRequestedMatchPatterns : matchesAllHosts(k)
    /\ "tabs" \in manifest.requestedPermissions
    /\ hasPermissionNamed(Ctx, "tabs")
    /\ m_grantedPermissionMatchPatterns = EmptyMap
    /\ ExampleURL \in Range(m_cachedPermissionURLs)
    /\ m_cachedPermissionStates[ExampleURL] = "RequestedImplicitly"

(***************************************************************************)
(* C8.  Each bulk setter replaces its map: right after                     *)
(* set_granted_permissions(L), set_granted_permission_match_patterns(L),   *)
(* set_denied_permissions(L) or set_denied_permission_match_patterns(L),   *)
(* called in any reachable state, the corresponding getter returns         *)
(* exactly the entries of L whose date has not passed, with their dates -  *)
(* nothing of the previous map is left - and nothing when L is NULL.       *)
(***************************************************************************)
C8_UnexpiredEntries(list) ==
    [k \in {e \in DOMAIN list : expirationOfEntry(list[e]) > now} |->
        expirationOfEntry(list[k])]

C9_KeysOfPermissions(c) == DOMAIN c.m_grantedPermissions \cup DOMAIN c.m_deniedPermissions
C9_KeysOfMatchPatterns(c) ==
    DOMAIN c.m_grantedPermissionMatchPatterns \cup DOMAIN c.m_deniedPermissionMatchPatterns

C9_AllGettersNull(c) ==
    /\ getGrantedPermissions(c) = EmptyMap
    /\ getDeniedPermissions(c) = EmptyMap
    /\ getGrantedPermissionMatchPatterns(c) = EmptyMap
    /\ getDeniedPermissionMatchPatterns(c) = EmptyMap

C9_ResetOfPermission(p) ==
    LET after == webkit_web_extension_context_set_permission_status_for_permission(
                     Ctx, p, "UNKNOWN", NoDate)
    IN  /\ p \notin C9_KeysOfPermissions(after)
        /\ (C9_KeysOfPermissions(Ctx) \subseteq {p} /\ C9_KeysOfMatchPatterns(Ctx) = {})
               => C9_AllGettersNull(after)

C9_ResetOfMatchPattern(pattern) ==
    LET after == webkit_web_extension_context_set_permission_status_for_match_pattern(
                     Ctx, pattern, "UNKNOWN", NoDate)
    IN  /\ pattern \notin C9_KeysOfMatchPatterns(after)
        /\ (C9_KeysOfMatchPatterns(Ctx) \subseteq {pattern} /\ C9_KeysOfPermissions(Ctx) = {})
               => C9_AllGettersNull(after)

C9_ResetOfURI(uri) ==
    LET after == webkit_web_extension_context_set_permission_status_for_uri(
                     Ctx, uri, "UNKNOWN", NoDate)
    IN  /\ patternForURL(uri) \notin C9_KeysOfMatchPatterns(after)
        /\ (/\ C9_KeysOfMatchPatterns(Ctx) \subseteq {patternForURL(uri)}
            /\ C9_KeysOfPermissions(Ctx) = {})
               => C9_AllGettersNull(after)

C9_UnknownRemovesEntry ==
    /\ \A p \in supportedPermissions : C9_ResetOfPermission(p)
    /\ \A pattern \in {AllURLsPattern, AllHostsPattern, ExampleSubdomainsPattern,
                       patternForURL(ExampleURL)} : C9_ResetOfMatchPattern(pattern)
    /\ \A uri \in WebURIs : C9_ResetOfURI(uri)

\* the last call removed a denied permission that was in force and was the only
\* entry of the four maps
C9_Witness ==
    /\ now = 0
    /\ signals = {"notify::" \o GrantedPermissionMatchPatternsWereRemovedSignal}
    /\ m_nextDeniedPermissionsExpirationDate = WallTimeInfinity
    /\ m_nextGrantedPermissionsExpirationDate = WallTimeInfinity
    /\ C9_KeysOfPermissions(Ctx) = {}
    /\ C9_KeysOfMatchPatterns(Ctx) = {}

(***************************************************************************)
(* C10.  While the all-URLs pattern is the only granted match pattern and  *)
(* a URL has access through it, a call that sets the status UNKNOWN for    *)
(* that URL changes nothing: the granted match-pattern list is the same    *)
(* single all-URLs entry, has_access_to_uri stays TRUE for the URL and its *)
(* status stays GRANTED_IMPLICITLY.                                        *)
(***************************************************************************)
C10_OnlyAllURLsGranted(c, uri) ==
    /\ DOMAIN getGrantedPermissionMatchPatterns(c) = {AllURLsPattern}
    /\ hasAccessToURI(c, uri)
    /\ statusForURI(c, uri) = "GRANTED_IMPLICITLY"

C10_ResetOfURLUnderAllURLs ==
    \A uri \in WebURIs :
        LET after == webkit_web_extension_context_set_permission_status_for_uri(
                         Ctx, uri, "UNKNOWN", NoDate)
        IN  C10_OnlyAllURLsGranted(Ctx, uri)
            => /\ C10_OnlyAllURLsGranted(after, uri)
               /\ getGrantedPermissionMatchPatterns(after)
                      = getGrantedPermissionMatchPatterns(Ctx)

\* only <all_urls> is granted, the URL's Granted state is cached, and the last
\* call emitted nothing
C10_Witness ==
    /\ DOMAIN m_grantedPermissionMatchPatterns = {AllURLsPattern}
    /\ m_deniedPermissionMatchPatterns = EmptyMap
    /\ C10_OnlyAllURLsGranted(Ctx, ExampleURL)
    /\ ExampleURL \in Range(m_cachedPermissionURLs)
    /\ signals = {}

(***************************************************************************)
(* C11.  Only DENIED_EXPLICITLY, UNKNOWN and GRANTED_EXPLICITLY may be     *)
(* set: in every reachable state, a set_permission_status_for_permission,  *)
(* _for_uri or _for_match_pattern call with any of the four other          *)
(* statuses, whatever its date, leaves the four maps (and the rest of the  *)
(* context) as they were and emits no signal; and so does                  *)
(* setPermissionState itself when it is handed one of the four             *)
(* corresponding states.                                                   *)
(***************************************************************************)
C11_OtherStatuses == PermissionStatuses \ settableStatuses
C11_OtherStates == {"DeniedImplicitly", "RequestedImplicitly", "RequestedExplicitly",
                    "GrantedImplicitly"}
C11_MatchPatterns ==
    {AllURLsPattern, AllHostsPattern, ExampleSubdomainsPattern, patternForURL(ExampleURL)}

C11_Untouched(c) ==
    /\ c.m_grantedPermissions = m_grantedPermissions
    /\ c.m_deniedPermissions = m_deniedPermissions
    /\ c.m_grantedPermissionMatchPatterns = m_grantedPermissionMatchPatterns
    /\ c.m_deniedPermissionMatchPatterns = m_deniedPermissionMatchPatterns
    /\ c.signals = {}
    /\ c = Ctx

C11_OnlyThreeStatusesSettable ==
    /\ \A status \in C11_OtherStatuses, date \in DateArguments :
           /\ \A p \in supportedPermissions :
                  C11_Untouched(
                      webkit_web_extension_context_set_permission_status_for_permission(
                          Ctx, p, status, date))
           /\ \A uri \in WebURIs :
                  C11_Untouched(
                      webkit_web_extension_context_set_permission_status_for_uri(
                          Ctx, uri, status, date))
           /\ \A pattern \in C11_MatchPatterns :
                  C11_Untouched(
                      webkit_web_extension_context_set_permission_status_for_match_pattern(
                          Ctx, pattern, status, date))
    /\ \A state \in C11_OtherStates, date \in DateArguments :
           /\ \A p \in supportedPermissions :
                  C11_Untouched(setPermissionState(Ctx, state, p, expirationOfStatus(date)))
           /\ \A uri \in WebURIs :
                  C11_Untouched(
                      setPermissionStateOfURL(Ctx, state, uri, expirationOfStatus(date)))
           /\ \A pattern \in C11_MatchPatterns :
                  C11_Untouched(
                      setPermissionStateOfMatchPattern(
                          Ctx, state, pattern, expirationOfStatus(date)))

\* a permission is granted and a match pattern denied, and the last call emitted
\* nothing
C11_Witness ==
    /\ m_grantedPermissions # EmptyMap
    /\ m_deniedPermissionMatchPatterns # EmptyMap
    /\ m_cachedPermissionURLs # << >>
    /\ signals = {}

(***************************************************************************)
(* Injected content.  The manifest's content_scripts are a vector of       *)
(* entries, each with its "matches" and "exclude_matches" patterns; no     *)
(* script is registered at run time.                                       *)
(***************************************************************************)
\* manifests of up to MaxInjectedContents entries over the patterns *://*/ ,
\* *://*.example.com/ and https://webkit.org/
UnknownURL == Url("https", "", "unknown.com", "/")                  \* https://unknown.com/

InjectedManifests ==
    LET includes == {Pattern(FALSE, "*", "*", "*", "/"),
                     Pattern(FALSE, "*", "*", "example.com", "/")}
        excludes == {Pattern(FALSE, "*", "*", "example.com", "/"), patternForURL(WebKitURL)}
        entries == [includeMatchPatterns : SUBSET includes \ {{}},
                    excludeMatchPatterns : SUBSET excludes \ {{patternForURL(WebKitURL)}}]
    IN  {[GrantingManifest EXCEPT !.staticInjectedContents = contents] :
            contents \in UNION {[1 .. n -> entries] : n \in 0 .. MaxInjectedContents}}

hasInjectedContentForURL_excludingForAll(c, url) ==
    LET injectedContents == c.manifest.staticInjectedContents
    IN  /\ \A i \in DOMAIN injectedContents :
               \A excludeMatchPattern \in injectedContents[i].excludeMatchPatterns :
                   ~matchesURL(excludeMatchPattern, url)
        /\ \E i \in DOMAIN injectedContents :
               \E includeMatchPattern \in injectedContents[i].includeMatchPatterns :
                   matchesURL(includeMatchPattern, url)
hasInjectedContentForURL(c, url) ==
    LET injectedContents == c.manifest.staticInjectedContents
        isExcluded(injectedContent) ==
            \E excludeMatchPattern \in injectedContent.excludeMatchPatterns :
                matchesURL(excludeMatchPattern, url)
        included(injectedContent) ==
            \E includeMatchPattern \in injectedContent.includeMatchPatterns :
                matchesURL(includeMatchPattern, url)
        \* the entries from index i on
        from[i \in 1 .. (Len(injectedContents) + 1)] ==
            IF i > Len(injectedContents) THEN FALSE
            ELSE IF isExcluded(injectedContents[i]) THEN from[i + 1]
            ELSE IF included(injectedContents[i]) THEN TRUE
            ELSE from[i + 1]
    IN  from[1]

\* webkit_web_extension_context_has_injected_content_for_uri: a query
HasInjectedContentForURI(uris) ==
    \E uri \in uris :
        /\ hasInjectedContentForURL(Ctx, uri) \in BOOLEAN
        /\ UNCHANGED vars

(***************************************************************************)
(* Contexts fresh from construction, that are only queried: every manifest *)
(* of up to three requested patterns, in every order its set may be        *)
(* iterated in.                                                            *)
(***************************************************************************)

DefaultManifests ==
    {OrderedManifest(permissions, order) :
        permissions \in {{}, {"tabs"}},
        order \in UNION {IterationOrders(S) :
                     S \in SUBSET {AllURLsPattern, AllHostsPattern, ExampleSubdomainsPattern}}}

InitDefault == InitWith(DefaultManifests, {FALSE})

NextDefault ==
    \/ HasPermission({"tabs", "cookies"})
    \/ PermissionStatusForPermission({"tabs", "cookies"})
    \/ HasAccessToURI((WebURIs \cup {UnknownURL}))
    \/ PermissionStatusForURI((WebURIs \cup {UnknownURL}))
    \/ HasInjectedContentForURI(WebURIs \cup {UnknownURL})
    \/ GetHasAccessToAllURIs
    \/ GetHasAccessToAllHosts
    \/ GetGrantedPermissions
    \/ GetDeniedPermissions
    \/ GetGrantedPermissionMatchPatterns
    \/ GetDeniedPermissionMatchPatterns
    \/ Tick

SpecDefault == InitDefault /\ [][NextDefault]_vars

(***************************************************************************)
(* C12.  On a context where nothing has been granted or denied, the status *)
(* of a permission is REQUESTED_EXPLICITLY if the manifest requests it and *)
(* UNKNOWN otherwise; the status of a URL is REQUESTED_EXPLICITLY if a     *)
(* host-specific requested pattern matches it, REQUESTED_IMPLICITLY if     *)
(* only all-hosts requested patterns match it, and UNKNOWN if no requested *)
(* pattern matches; and the four granted/denied getters return NULL.       *)
(***************************************************************************)
C12_RequestedMatching(uri) == {k \in manifest.allRequestedMatchPatterns : matchesURL(k, uri)}

C12_StatusOfPermission(permission) ==
    IF permission \in manifest.requestedPermissions THEN "REQUESTED_EXPLICITLY" ELSE "UNKNOWN"

C12_StatusOfURI(uri) ==
    IF \E k \in C12_RequestedMatching(uri) : ~matchesAllHosts(k) THEN "REQUESTED_EXPLICITLY"
    ELSE IF C12_RequestedMatching(uri) # {} THEN "REQUESTED_IMPLICITLY"
    ELSE "UNKNOWN"

C12_GettersReturnNull ==
    /\ getGrantedPermissions(Ctx) = EmptyMap
    /\ getDeniedPermissions(Ctx) = EmptyMap
    /\ getGrantedPermissionMatchPatterns(Ctx) = EmptyMap
    /\ getDeniedPermissionMatchPatterns(Ctx) = EmptyMap

C12_DefaultStatuses ==
    /\ \A permission \in {"tabs", "cookies"} :
           statusForPermission(Ctx, permission) = C12_StatusOfPermission(permission)
    /\ \A uri \in (WebURIs \cup {UnknownURL}) : statusForURI(Ctx, uri) = C12_StatusOfURI(uri)
    /\ C12_GettersReturnNull

\* what holds of every fresh context: the claim wherever the patterns matching the
\* URL are all host-specific or all all-hosts, and one of the two requested
\* statuses where they are mixed
C12_DefaultStatusesUnmixed ==
    /\ \A permission \in {"tabs", "cookies"} :
           statusForPermission(Ctx, permission) = C12_StatusOfPermission(permission)
    /\ \A uri \in (WebURIs \cup {UnknownURL}) :
           IF \E k, l \in C12_RequestedMatching(uri) : matchesAllHosts(k) /\ ~matchesAllHosts(l)
           THEN statusForURI(Ctx, uri) \in {"REQUESTED_EXPLICITLY", "REQUESTED_IMPLICITLY"}
           ELSE statusForURI(Ctx, uri) = C12_StatusOfURI(uri)
    /\ C12_GettersReturnNull

(***************************************************************************)
(* Loading the background content.  Each call of load_background_content   *)
(* makes a GTask; g_task_return_* stores the task's result and leaves the  *)
(* callback to the main loop.  The background web view reports its load    *)
(* with load-changed (started, committed, finished) and load-failed; a     *)
(* service worker reports it through the completion handler of             *)
(* webkitWebViewLoadServiceWorker instead.                                 *)
(***************************************************************************)
BackgroundManifests ==
    {[GrantingManifest EXCEPT !.hasBackgroundContent = content,
                              !.backgroundContentIsServiceWorker = worker] :
        content \in BOOLEAN, worker \in {FALSE}}
    \cup {[GrantingManifest EXCEPT !.hasBackgroundContent = TRUE,
                                   !.backgroundContentIsServiceWorker = TRUE]}

\* a task returns once (ever_returned); its callback is invoked from the main loop
g_task_return(ts, t, result) ==
    IF ts[t].result = "created" THEN [ts EXCEPT ![t].result = result] ELSE ts

\* the completion handler of load_background_content returns its task with the
\* error handed to it, or with TRUE
completeTask(ts, t, error) == g_task_return(ts, t, IF error = "null" THEN "TRUE" ELSE error)

performTasksAfterBackgroundContentLoads ==
    IF ~isLoaded
    THEN UNCHANGED << m_backgroundContentIsLoaded,
                      m_actionsToPerformAfterBackgroundContentLoads, tasks >>
    ELSE /\ tasks' = [t \in DOMAIN tasks |->
                         IF t \in Range(m_actionsToPerformAfterBackgroundContentLoads)
                         THEN completeTask(tasks, t, m_backgroundContentLoadError)[t]
                         ELSE tasks[t]]
         /\ m_backgroundContentIsLoaded' = TRUE
         /\ m_actionsToPerformAfterBackgroundContentLoads' = << >>

\* webkit_web_extension_context_load_background_content, with loadBackgroundContent,
\* wakeUpBackgroundContentIfNecessary and loadBackgroundWebViewIfNeeded
LoadBackgroundContent ==
    \E t \in 1 .. MaxTasks :
        /\ tasks[t].result = "none"
        /\ \A earlier \in 1 .. (t - 1) : tasks[earlier].result # "none"
        /\ LET created == [tasks EXCEPT ![t].result = "created"]
               backgroundContentIsLoaded ==
                   /\ m_backgroundWebView # "null"
                   /\ m_backgroundContentIsLoaded
                   /\ m_actionsToPerformAfterBackgroundContentLoads = << >>
           IN  IF ~isLoaded
               THEN /\ tasks' = g_task_return(created, t, "NOT_LOADED")
                    /\ UNCHANGED << m_backgroundWebView, m_backgroundContentIsLoaded,
                                    m_backgroundContentLoadError,
                                    m_actionsToPerformAfterBackgroundContentLoads >>
               ELSE IF ~manifest.hasBackgroundContent
               THEN /\ tasks' = g_task_return(created, t, "NO_BACKGROUND_CONTENT")
                    /\ UNCHANGED << m_backgroundWebView, m_backgroundContentIsLoaded,
                                    m_backgroundContentLoadError,
                                    m_actionsToPerformAfterBackgroundContentLoads >>
               ELSE IF backgroundContentIsLoaded
               THEN /\ tasks' = completeTask(created, t, m_backgroundContentLoadError)
                    /\ UNCHANGED << m_backgroundWebView, m_backgroundContentIsLoaded,
                                    m_backgroundContentLoadError,
                                    m_actionsToPerformAfterBackgroundContentLoads >>
               ELSE /\ tasks' = created
                    /\ m_actionsToPerformAfterBackgroundContentLoads' =
                           Append(m_actionsToPerformAfterBackgroundContentLoads, t)
                    /\ IF m_backgroundWebView = "null"
                       THEN /\ m_backgroundWebView' = "requested"
                            /\ m_backgroundContentIsLoaded' = FALSE
                            /\ m_backgroundContentLoadError' = "null"
                       ELSE UNCHANGED << m_backgroundWebView, m_backgroundContentIsLoaded,
                                         m_backgroundContentLoadError >>
        /\ UNCHANGED << isLoaded, permissionVars >>

\* load-changed of the background page, whatever its load event:
\* didFinishDocumentLoadCb, didFinishDocumentLoad
LoadChanged ==
    /\ ~manifest.backgroundContentIsServiceWorker
    /\ m_backgroundWebView \in {"requested", "started", "committed"}
    /\ m_backgroundWebView' = CASE m_backgroundWebView = "requested" -> "started"
                                 [] m_backgroundWebView = "started" -> "committed"
                                 [] m_backgroundWebView = "committed" -> "finished"
    /\ performTasksAfterBackgroundContentLoads
    /\ UNCHANGED << isLoaded, m_backgroundContentLoadError, permissionVars >>

\* load-failed of the background page: didFailNavigationCb, didFailNavigation,
\* unloadBackgroundWebView
LoadFailed ==
    /\ ~manifest.backgroundContentIsServiceWorker
    /\ m_backgroundWebView \in {"started", "committed"}
    /\ m_backgroundContentLoadError' = "BACKGROUND_CONTENT_FAILED_TO_LOAD"
    /\ m_backgroundContentIsLoaded' = FALSE
    /\ m_backgroundWebView' = "null"
    /\ UNCHANGED << isLoaded, m_actionsToPerformAfterBackgroundContentLoads, tasks,
                    permissionVars >>

\* the completion handler loadBackgroundWebView gives webkitWebViewLoadServiceWorker
ServiceWorkerLoaded ==
    \E success \in BOOLEAN :
        /\ manifest.backgroundContentIsServiceWorker
        /\ m_backgroundWebView = "requested"
        /\ m_backgroundWebView' = "finished"
        /\ IF success
           THEN /\ performTasksAfterBackgroundContentLoads
                /\ UNCHANGED m_backgroundContentLoadError
           ELSE /\ m_backgroundContentLoadError' = "BACKGROUND_CONTENT_FAILED_TO_LOAD"
                /\ UNCHANGED << m_backgroundContentIsLoaded,
                                m_actionsToPerformAfterBackgroundContentLoads, tasks >>
        /\ UNCHANGED << isLoaded, permissionVars >>

\* the main loop invokes the callback of a task that has returned
InvokeCallback ==
    \E t \in 1 .. MaxTasks :
        /\ tasks[t].result \notin {"none", "created"}
        /\ tasks[t].callbacks = 0
        /\ tasks' = [tasks EXCEPT ![t].callbacks = 1]
        /\ UNCHANGED << isLoaded, m_backgroundWebView, m_backgroundContentIsLoaded,
                        m_backgroundContentLoadError,
                        m_actionsToPerformAfterBackgroundContentLoads, permissionVars >>

NextBackground ==
    \/ LoadBackgroundContent
    \/ LoadChanged
    \/ LoadFailed
    \/ ServiceWorkerLoaded
    \/ InvokeCallback

SpecBackground == InitWith(BackgroundManifests, BOOLEAN) /\ [][NextBackground]_vars

\* the main loop keeps dispatching, and the web view reports the outcome of its load
FairSpecBackground ==
    /\ SpecBackground
    /\ WF_vars(InvokeCallback)
    /\ WF_vars(LoadChanged \/ LoadFailed \/ ServiceWorkerLoaded)

(***************************************************************************)
(* C13.  Every call of load_background_content eventually invokes its      *)
(* callback, and invokes it once: when the context is not loaded, when the *)
(* background content is already loaded, when the load finishes, and when  *)
(* the load fails.                                                         *)
(***************************************************************************)
C13_CallbackInvokedExactlyOnce ==
    /\ [](\A t \in 1 .. MaxTasks : tasks[t].callbacks <= 1)
    /\ \A t \in 1 .. MaxTasks : (tasks[t].result # "none") ~> (tasks[t].callbacks = 1)

\* fresh contexts of manifests with content scripts, that are only queried
SpecInjected == InitWith(InjectedManifests, {FALSE}) /\ [][NextDefault]_vars

(***************************************************************************)
(* C14.  has_injected_content_for_uri(u) is TRUE exactly when some         *)
(* injected-content entry has an include pattern matching u and no exclude *)
(* pattern of that same entry matching u: a URL excluded by one entry is   *)
(* still reported when another entry includes it without excluding it, and *)
(* a context with no injected content reports FALSE for every URL.         *)
(***************************************************************************)
\* the URLs an entry injects into: those its includes match, less those its excludes match
C14_InjectedInto(injectedContent) ==
    {u \in WebURIs \cup {UnknownURL} :
        \E k \in injectedContent.includeMatchPatterns : matchesURL(k, u)}
    \ {u \in WebURIs \cup {UnknownURL} :
        \E k \in injectedContent.excludeMatchPatterns : matchesURL(k, u)}

C14_InjectedContentForURI ==
    /\ \A u \in WebURIs \cup {UnknownURL} :
           hasInjectedContentForURL(Ctx, u)
               <=> u \in UNION {C14_InjectedInto(entry) :
                                  entry \in Range(manifest.staticInjectedContents)}
    /\ manifest.staticInjectedContents = << >>
           => \A u \in WebURIs \cup {UnknownURL} : ~hasInjectedContentForURL(Ctx, u)

\* https://example.com/ is excluded by the first entry and included, unexcluded, by
\* the second, and it is reported
C14_Witness ==
    /\ Len(manifest.staticInjectedContents) = 2
    /\ ExampleURL \notin C14_InjectedInto(manifest.staticInjectedContents[1])
    /\ \E k \in manifest.staticInjectedContents[1].excludeMatchPatterns :
           matchesURL(k, ExampleURL)
    /\ ExampleURL \in C14_InjectedInto(manifest.staticInjectedContents[2])
    /\ hasInjectedContentForURL(Ctx, ExampleURL)
    /\ ExampleURL \in Range(m_cachedPermissionURLs)

(***************************************************************************)
(* The URL cache under changes of the permissions that decide the state    *)
(* of an otherwise unmatched URL.                                          *)
(***************************************************************************)
NextCache ==
    \/ SetPermissionStatusForPermission({"webNavigation"})
    \/ SetPermissionStatusForMatchPattern({ExampleSubdomainsPattern})
    \/ PermissionStatusForURI(WebURIs)
    \/ HasAccessToURI(WebURIs)
    \/ Tick

SpecCache == Init /\ [][NextCache]_vars

(***************************************************************************)
(* C15.  A URL permission state served from the cache is still valid:      *)
(* after any sequence of grants, denials, resets and expirations of        *)
(* permissions and match patterns, permissionState(url) with given options *)
(* equals the state computed from the current maps with the cache ignored. *)
(***************************************************************************)
C15_CachedStateStillValid ==
    \A url \in WebURIs, options \in URLOptions :
        permissionStateOfURL(Ctx, url, options).ret
            = permissionStateOfURL(clearCachedPermissionStates(Ctx), url, options).ret

(***************************************************************************)
(* C16.  For each of the four maps, whenever the stored next-expiration    *)
(* date is later than the current time, no entry of the map has an         *)
(* expiration date at or before the current time (the next-expiration date *)
(* never exceeds the least expiration date of the map's entries), so the   *)
(* lazy sweep never skips an expired entry.                                *)
(***************************************************************************)
\* the sweep of a map is skipped: the guard of removeExpired
C16_SweepSkipped(nextExpirationDate) ==
    nextExpirationDate # WallTimeNaN /\ nextExpirationDate > now

C16_NoEarlierEntry(map, nextExpirationDate) ==
    C16_SweepSkipped(nextExpirationDate)
        => \A k \in DOMAIN map : map[k] > now /\ nextExpirationDate <= map[k]

C16_SweepNeverSkipsExpiredEntry ==
    /\ C16_NoEarlierEntry(m_grantedPermissions, m_nextGrantedPermissionsExpirationDate)
    /\ C16_NoEarlierEntry(m_deniedPermissions, m_nextDeniedPermissionsExpirationDate)
    /\ C16_NoEarlierEntry(m_grantedPermissionMatchPatterns,
                          m_nextGrantedPermissionMatchPatternsExpirationDate)
    /\ C16_NoEarlierEntry(m_deniedPermissionMatchPatterns,
                          m_nextDeniedPermissionMatchPatternsExpirationDate)

\* time has passed, a dated grant of a permission and a dated denial of a pattern
\* are still in force, and the sweeps of both maps are skipped
C16_Witness ==
    /\ now > 0
    /\ C16_SweepSkipped(m_nextGrantedPermissionsExpirationDate)
    /\ C16_SweepSkipped(m_nextDeniedPermissionMatchPatternsExpirationDate)
    /\ \E k \in DOMAIN m_grantedPermissions :
           m_grantedPermissions[k] = m_nextGrantedPermissionsExpirationDate
    /\ \E k \in DOMAIN m_deniedPermissionMatchPatterns :
           m_deniedPermissionMatchPatterns[k] =
               m_nextDeniedPermissionMatchPatternsExpirationDate
    /\ m_nextGrantedPermissionsExpirationDate < WallTimeInfinity
    /\ m_nextDeniedPermissionMatchPatternsExpirationDate < WallTimeInfinity

====
